---- MODULE Spec2Model ----
(***************************************************************************)
(* Order books of the rust-ftx workspace.                                  *)
(*                                                                         *)
(*   crates/match_engine  the persistent book: Vec sides behind mutexes,   *)
(*                        a snapshot written to the store on every append  *)
(*                        and a detached matcher thread per append         *)
(*   crates/match-engine  the channel book: Vec sides, every appended      *)
(*                        order is sent on an mpsc channel                 *)
(*   crates/engine        the heap book: BinaryHeap buy side, Vec sell side*)
(*                                                                         *)
(* One behaviour follows one book; `variant` says which crate it is.       *)
(* Spec runs any of the three books; SpecStore, SpecDeep, SpecQ and        *)
(* SpecTest run the persistent book: over its store with build and load,   *)
(* with longer append sequences, with several quantities, and as           *)
(* tests::match_orders_test drives it.                                     *)
(* SpecDb runs the store alone (crates/db): sets of values on two keys.    *)
(* In SpecStore the store may also fail a write or a read.                 *)
(* SpecReload is SpecStore with one restart and a store that never fails.  *)
(* SpecLive adds the scheduling of the caller and of the matcher threads,  *)
(* SpecLocks follows only the mutexes each thread takes and releases, and  *)
(* SpecChannel runs the channel book with its receiving matcher thread.    *)
(* The caller owns the book (&mut self), so calls never overlap each       *)
(* other; the matcher threads of the persistent book run concurrently with *)
(* the caller and take both side locks for each loop iteration.            *)
(***************************************************************************)
EXTENDS Integers, Sequences, FiniteSets, Bags, TLC

\* ------------------------------------------------------------- bounds
MaxOrders == 4      \* orders created in a behaviour of Spec
MaxDeepOrders == 5  \* orders created in a behaviour of SpecDeep
MaxPrice == 2       \* prices are 1..MaxPrice
MaxPending == 1     \* matcher threads still alive when a new append starts
MaxStoreOrders == 3 \* orders created in a behaviour of SpecStore
MaxBuilds == 1      \* fresh books built over the same store (restarts)
MaxLoads == 1       \* calls of load
MaxOrdersQ == 2     \* orders created in a behaviour of SpecQ
MaxListLen == 2     \* length of the lists in a value given to Database::set
MaxLiveOrders == 3  \* orders created in a behaviour of SpecLive
MaxReloadOrders == 3 \* orders created in a behaviour of SpecReload
MaxMatchers == 2    \* matcher threads alive at once in a behaviour of SpecLocks
MaxIterations == 2  \* loop iterations of one matcher thread in SpecLocks
MaxCalls == 3       \* calls made by the caller's thread in SpecLocks

\* the caller's thread; the matcher threads are 1..MaxMatchers
CallerThread == 0
Threads == 0..MaxMatchers

\* quantity when the command line gives none (cli/src/main.rs:58)
DefaultQuantity == 1

Prices == 1..MaxPrice
Quantities == {3, 5}
Variants == {"persistent", "channel", "heap"}
Keys == {"BTC/USD", "btc/usdc"}
Locks == {"db", "buy", "sell"}

VARIABLES
    variant,      \* which crate's OrderBook this behaviour follows
    buy_orders,   \* OrderBook.buy_orders (a Vec; the heap's array in the heap book)
    sell_orders,  \* OrderBook.sell_orders
    channel,      \* the orders sent on OrderBook.channel and not yet received, oldest first
    db,           \* the store's value under the pair key: None or Some(Item)
    matchers,     \* live matcher threads: the bag of their loop variables `index`
    pc,           \* where the caller is inside append_* / load
    item,         \* the Item the caller is assembling for db.set
    loadQ,        \* load: the stored active orders not pushed yet
    result,       \* what the caller's last finished call returned
    nextId,       \* the id Order::new gives next (ids are unique; here 1, 2, ...)
    nBuilds,      \* builds so far
    nLoads,       \* loads so far
    inner,        \* Database.inner: the sled tree, key -> stored bytes
    everFilled,   \* history: the ids a matcher has marked Filled
    origin,       \* history: where this book's entries come from
    written,      \* history: the active orders of the book at the last db.set
    storeError,   \* history: the store call that failed in the caller's last call
    lastSet,      \* history: key -> the value of the last Database::set on it
    holder,       \* lock view: mutex -> None or Some(the thread that holds it)
    todo,         \* lock view: thread -> the lock operations it still has to do
    nCalls,       \* lock view: calls started by the caller's thread
    poisoned      \* the mutexes a thread held when it panicked

vars == <<variant, buy_orders, sell_orders, channel, db, matchers, pc, item,
          loadQ, result, nextId, nBuilds, nLoads, inner, everFilled, origin,
          written, storeError, lastSet, holder, todo, nCalls, poisoned>>

lockVars == <<holder, todo, nCalls, poisoned>>

\* Option<Item>: None or Some(item)
None == <<>>
Some(x) == <<x>>
EmptyItem == [active_orders |-> <<>>, fulfilled_orders |-> <<>>]

\* ------------------------------------------------------------- Order
\* Order::new: a fresh id, status Active
NewOrder(quantity, price, order_type) ==
    [id |-> nextId, price |-> price, quantity |-> quantity,
     order_type |-> order_type, order_status |-> "Active"]

\* Order::update_order_status
update_order_status(order, new_order_status) ==
    [order EXCEPT !.order_status = new_order_status]

\* i32::cmp
IntCmp(a, b) == IF a < b THEN "Less" ELSE IF a = b THEN "Equal" ELSE "Greater"

\* impl Ord for Order
Order_cmp(self, other) ==
    IF self.order_type = "Buy" THEN IntCmp(self.price, other.price)
    ELSE IntCmp(other.price, self.price)

\* impl PartialOrd for Order (the Sell arm compares other.price with itself)
Order_partial_cmp(self, other) ==
    IF self.order_type = "Buy" THEN IntCmp(self.price, other.price)
    ELSE IntCmp(other.price, other.price)

\* ------------------------------------------------------------- helpers
SetMax(S) == CHOOSE x \in S : \A y \in S : y <= x

InsertAt(vec, index, element) ==
    SubSeq(vec, 1, index) \o <<element>> \o SubSeq(vec, index + 1, Len(vec))

Elems(vec) == {vec[i] : i \in 1..Len(vec)}
Ids(vec) == {vec[i].id : i \in 1..Len(vec)}

\* sorted_insert on a Vec: the element goes right after the last entry e with
\* f(e, element), at the front when there is none (Vec::iter().rposition)
SortedInsertIndexAsc(vec, element) ==
    LET S == {i \in 1..Len(vec) : vec[i].price <= element.price}
    IN  IF S = {} THEN 0 ELSE SetMax(S)

SortedInsertIndexDesc(vec, element) ==
    LET S == {i \in 1..Len(vec) : vec[i].price >= element.price}
    IN  IF S = {} THEN 0 ELSE SetMax(S)

SortedInsertIndexDescStrict(vec, element) ==
    LET S == {i \in 1..Len(vec) : vec[i].price > element.price}
    IN  IF S = {} THEN 0 ELSE SetMax(S)

sorted_insert_asc_by_key(vec, element) ==
    InsertAt(vec, SortedInsertIndexAsc(vec, element), element)

\* a variant of the descending insert that puts a new order before its equals
sorted_insert_desc_before_equals(vec, element) ==
    InsertAt(vec, SortedInsertIndexDescStrict(vec, element), element)

sorted_insert_desc_by_key(vec, element) ==
    InsertAt(vec, SortedInsertIndexDesc(vec, element), element)

\* BinaryHeap::push: the new element is put last and sifted up while it is
\* not <= its parent (PartialOrd::le, from Order::partial_cmp)
Order_le(a, b) == Order_partial_cmp(a, b) \in {"Less", "Equal"}

Swap(vec, i, j) == [vec EXCEPT ![i] = vec[j], ![j] = vec[i]]

RECURSIVE sift_up(_, _)
sift_up(heap, pos) ==
    IF pos = 0 THEN heap
    ELSE LET parent == (pos - 1) \div 2
         IN  IF Order_le(heap[pos + 1], heap[parent + 1]) THEN heap
             ELSE sift_up(Swap(heap, pos + 1, parent + 1), parent)

BinaryHeap_push(heap, order) == sift_up(Append(heap, order), Len(heap))

\* ------------------------------------------------------------- views
IsActive(o) == o.order_status = "Active"
IsFilled(o) == o.order_status = "Filled"

get_active_buy_orders == SelectSeq(buy_orders, IsActive)
get_active_sell_orders == SelectSeq(sell_orders, IsActive)
get_filled_buy_orders == SelectSeq(buy_orders, IsFilled)
get_filled_sell_orders == SelectSeq(sell_orders, IsFilled)

IsBuy(o) == o.order_type = "Buy"
IsSell(o) == o.order_type = "Sell"


\* ------------------------------------------------------------- Init
Init ==
    /\ variant \in Variants
    /\ buy_orders = <<>>
    /\ sell_orders = <<>>
    /\ channel = <<>>
    /\ db = None
    /\ matchers = EmptyBag
    /\ pc = "idle"
    /\ item = EmptyItem
    /\ loadQ = <<>>
    /\ result = "none"
    /\ nextId = 1
    /\ nBuilds = 0
    /\ nLoads = 0
    /\ inner = [key \in Keys |-> None]
    /\ everFilled = {}
    /\ origin = "built"
    /\ written = [buy |-> <<>>, sell |-> <<>>]
    /\ storeError = "none"
    /\ lastSet = [key \in Keys |-> None]
    /\ holder = [l \in Locks |-> None]
    /\ todo = [t \in Threads |-> <<>>]
    /\ nCalls = 0
    /\ poisoned = {}

\* ------------------------------------- the persistent book (match_engine)
\* what an append leaves alone while it inserts
AppendFrame ==
    UNCHANGED <<lockVars, variant, inner, lastSet, channel, db, matchers, loadQ, nBuilds, nLoads,
                everFilled, written>>

\* the Err arm of append_*: nothing but the return value
Rejected ==
    /\ result' = "Err"
    /\ storeError' = "none"
    /\ UNCHANGED <<lockVars, variant, inner, lastSet, buy_orders, sell_orders, channel, db, matchers,
                   pc, item, loadQ, nextId, nBuilds, nLoads, everFilled, origin, written>>

\* the insert of an accepted order; the snapshot reads follow
Accepted(buy, sell) ==
    /\ buy_orders' = buy
    /\ sell_orders' = sell
    /\ pc' = "join_active_buy"
    /\ item' = EmptyItem
    /\ result' = "none"
    /\ nextId' = nextId + 1
    /\ origin' = "used"
    /\ storeError' = "none"
    /\ AppendFrame

\* append_buy_order with the side check made after the insert
AppendBuyOrderCheckLate(order) ==
    /\ variant = "persistent"
    /\ pc = "idle"
    /\ IF order.order_type = "Buy"
       THEN Accepted(sorted_insert_desc_by_key(buy_orders, order), sell_orders)
       ELSE /\ buy_orders' = sorted_insert_desc_by_key(buy_orders, order)
            /\ result' = "Err"
            /\ storeError' = "none"
            /\ UNCHANGED <<lockVars, variant, inner, lastSet, sell_orders, channel, db, matchers, pc,
                           item, loadQ, nextId, nBuilds, nLoads, everFilled, origin,
                           written>>

\* append_buy_order, up to the release of the buy lock (or the Err return)
AppendBuyOrder(order) ==
    /\ variant = "persistent"
    /\ pc = "idle"
    /\ IF order.order_type = "Buy"
       THEN Accepted(sorted_insert_desc_by_key(buy_orders, order), sell_orders)
       ELSE Rejected

\* append_sell_order, up to the release of the sell lock (or the Err return)
AppendSellOrder(order) ==
    /\ variant = "persistent"
    /\ pc = "idle"
    /\ IF order.order_type = "Sell"
       THEN Accepted(buy_orders, sorted_insert_asc_by_key(sell_orders, order))
       ELSE Rejected

SnapshotFrame ==
    UNCHANGED <<lockVars, variant, inner, lastSet, buy_orders, sell_orders, channel, loadQ, nextId,
                nBuilds, nLoads, everFilled, origin, storeError>>

\* join_active_orders, first half: get_active_buy_orders under the buy lock
JoinActiveBuy ==
    /\ pc = "join_active_buy"
    /\ item' = [item EXCEPT !.active_orders = get_active_buy_orders]
    /\ pc' = "join_active_sell"
    /\ SnapshotFrame /\ UNCHANGED <<db, matchers, result, written>>

\* join_active_orders, second half: get_active_sell_orders under the sell lock
JoinActiveSell ==
    /\ pc = "join_active_sell"
    /\ item' = [item EXCEPT !.active_orders = @ \o get_active_sell_orders]
    /\ pc' = "join_filled_buy"
    /\ SnapshotFrame /\ UNCHANGED <<db, matchers, result, written>>

\* join_filled_orders, first half: get_filled_buy_orders under the buy lock
JoinFilledBuy ==
    /\ pc = "join_filled_buy"
    /\ item' = [item EXCEPT !.fulfilled_orders = get_filled_buy_orders]
    /\ pc' = "join_filled_sell"
    /\ SnapshotFrame /\ UNCHANGED <<db, matchers, result, written>>

\* join_filled_orders, second half, then db.set of the Item, then match_orders
\* spawns the matcher thread (index = 0) and the append returns Ok
JoinFilledSellSetSpawn ==
    /\ pc = "join_filled_sell"
    /\ db' = Some([item EXCEPT !.fulfilled_orders = @ \o get_filled_sell_orders])
    /\ matchers' = matchers (+) SetToBag({0})
    /\ item' = EmptyItem
    /\ pc' = "idle"
    /\ result' = "Ok"
    /\ written' = [buy |-> get_active_buy_orders, sell |-> get_active_sell_orders]
    /\ SnapshotFrame

\* the test of match_orders' inner if, with > for >=
CrossesStrict(max_buy_order, min_sell_order) ==
    /\ max_buy_order.price > min_sell_order.price
    /\ max_buy_order.order_status = "Active"
    /\ min_sell_order.order_status = "Active"

\* the test of match_orders' inner if, without the two status tests
CrossesAnyStatus(max_buy_order, min_sell_order) ==
    max_buy_order.price >= min_sell_order.price

\* the test of match_orders' inner if, without the status test of the sell
CrossesBuyActive(max_buy_order, min_sell_order) ==
    /\ max_buy_order.price >= min_sell_order.price
    /\ max_buy_order.order_status = "Active"

\* the test of match_orders' inner if
Crosses(max_buy_order, min_sell_order) ==
    /\ max_buy_order.price >= min_sell_order.price
    /\ max_buy_order.order_status = "Active"
    /\ min_sell_order.order_status = "Active"

\* the loop iteration with index set back to 0 at the end of a side
MatchStepWrap(index) ==
    /\ BagIn(index, matchers)
    /\ LET stop == index + 1 > Len(buy_orders) \/ index + 1 > Len(sell_orders)
           hit == /\ index + 1 <= Len(buy_orders)
                  /\ index + 1 <= Len(sell_orders)
                  /\ Crosses(buy_orders[index + 1], sell_orders[index + 1])
       IN  /\ IF hit
              THEN /\ buy_orders' = [buy_orders EXCEPT
                          ![index + 1] = update_order_status(@, "Filled")]
                   /\ sell_orders' = [sell_orders EXCEPT
                          ![index + 1] = update_order_status(@, "Filled")]
                   /\ everFilled' = everFilled \cup {buy_orders[index + 1].id,
                                                      sell_orders[index + 1].id}
              ELSE UNCHANGED <<buy_orders, sell_orders, everFilled>>
           /\ matchers' = (matchers (-) SetToBag({index}))
                          (+) SetToBag({IF stop THEN 0 ELSE index + 1})
    /\ UNCHANGED <<lockVars, variant, inner, lastSet, channel, db, pc, item, loadQ, result, nextId,
                   nBuilds, nLoads, origin, written, storeError>>

\* the loop iteration with an else arm that sets a pair that does not cross
\* back to Active
MatchStepReopen(index) ==
    /\ BagIn(index, matchers)
    /\ LET stop == index + 1 > Len(buy_orders) \/ index + 1 > Len(sell_orders)
           both == index + 1 <= Len(buy_orders) /\ index + 1 <= Len(sell_orders)
           status == IF both /\ Crosses(buy_orders[index + 1], sell_orders[index + 1])
                     THEN "Filled" ELSE "Active"
       IN  /\ IF both
              THEN /\ buy_orders' = [buy_orders EXCEPT
                          ![index + 1] = update_order_status(@, status)]
                   /\ sell_orders' = [sell_orders EXCEPT
                          ![index + 1] = update_order_status(@, status)]
                   /\ everFilled' = IF status = "Filled"
                                    THEN everFilled \cup {buy_orders[index + 1].id,
                                                          sell_orders[index + 1].id}
                                    ELSE everFilled
              ELSE UNCHANGED <<buy_orders, sell_orders, everFilled>>
           /\ matchers' = IF stop
                          THEN matchers (-) SetToBag({index})
                          ELSE (matchers (-) SetToBag({index})) (+) SetToBag({index + 1})
    /\ UNCHANGED <<lockVars, variant, inner, lastSet, channel, db, pc, item, loadQ, result, nextId,
                   nBuilds, nLoads, origin, written, storeError>>

\* one iteration of the matcher thread's loop, both side locks held
MatchStep(index) ==
    /\ BagIn(index, matchers)
    /\ LET stop == index + 1 > Len(buy_orders) \/ index + 1 > Len(sell_orders)
           hit == /\ index + 1 <= Len(buy_orders)
                  /\ index + 1 <= Len(sell_orders)
                  /\ Crosses(buy_orders[index + 1], sell_orders[index + 1])
       IN  /\ IF hit
              THEN /\ buy_orders' = [buy_orders EXCEPT
                          ![index + 1] = update_order_status(@, "Filled")]
                   /\ sell_orders' = [sell_orders EXCEPT
                          ![index + 1] = update_order_status(@, "Filled")]
                   /\ everFilled' = everFilled \cup {buy_orders[index + 1].id,
                                                      sell_orders[index + 1].id}
              ELSE UNCHANGED <<buy_orders, sell_orders, everFilled>>
           /\ matchers' = IF stop
                          THEN matchers (-) SetToBag({index})
                          ELSE (matchers (-) SetToBag({index})) (+) SetToBag({index + 1})
    /\ UNCHANGED <<lockVars, variant, inner, lastSet, channel, db, pc, item, loadQ, result, nextId,
                   nBuilds, nLoads, origin, written, storeError>>

\* OrderBook::default + set_pair + set_db + build: a fresh book over the same
\* store; the threads of an earlier book keep that book's vectors, not this one's
Build ==
    /\ variant = "persistent"
    /\ pc = "idle"
    /\ buy_orders' = <<>>
    /\ sell_orders' = <<>>
    /\ matchers' = EmptyBag
    /\ result' = "none"
    /\ nBuilds' = nBuilds + 1
    /\ origin' = "built"
    /\ UNCHANGED <<lockVars, variant, inner, lastSet, channel, db, pc, item, loadQ, nextId, nLoads,
                   everFilled, written, storeError>>

\* load, up to the deserialised Item: the stored active orders, buys then sells
Load ==
    /\ variant = "persistent"
    /\ pc = "idle"
    /\ nLoads' = nLoads + 1
    /\ result' = "none"
    /\ LET q == IF db = None THEN <<>>
                ELSE SelectSeq(db[1].active_orders, IsBuy)
                     \o SelectSeq(db[1].active_orders, IsSell)
       IN  /\ loadQ' = q
           /\ pc' = IF q = <<>> THEN "idle" ELSE "load"
    /\ origin' = IF origin = "built" THEN "loaded" ELSE "used"
    /\ storeError' = "none"
    /\ UNCHANGED <<lockVars, variant, inner, lastSet, buy_orders, sell_orders, channel, db, matchers,
                   item, nextId, nBuilds, everFilled, written>>

\* load: one push under the side's lock; load returns after the last one
LoadPush ==
    /\ pc = "load"
    /\ loadQ # <<>>
    /\ LET o == Head(loadQ)
       IN  IF o.order_type = "Buy"
           THEN buy_orders' = Append(buy_orders, o) /\ UNCHANGED sell_orders
           ELSE sell_orders' = Append(sell_orders, o) /\ UNCHANGED buy_orders
    /\ loadQ' = Tail(loadQ)
    /\ pc' = IF Len(loadQ) = 1 THEN "idle" ELSE "load"
    /\ UNCHANGED <<lockVars, variant, inner, lastSet, channel, db, matchers, item, result, nextId,
                   nBuilds, nLoads, everFilled, origin, written, storeError>>

\* append_*: the four snapshot reads are done, db.set returns Err and
\* .expect("sam bankman fried") panics: no matcher is spawned, nothing is returned
SetFails ==
    /\ pc = "join_filled_sell"
    /\ pc' = "panicked"
    /\ result' = "panic"
    /\ storeError' = "set"
    /\ item' = EmptyItem
    /\ UNCHANGED <<lockVars, variant, inner, lastSet, buy_orders, sell_orders, channel, db, matchers,
                   loadQ, nextId, nBuilds, nLoads, everFilled, origin, written>>

\* load: guard.get returns Err and the Err(_) => {} arm runs: load returns
\* with the book as it was
LoadGetFails ==
    /\ variant = "persistent"
    /\ pc = "idle"
    /\ nLoads' = nLoads + 1
    /\ result' = "none"
    /\ storeError' = "get"
    /\ UNCHANGED <<lockVars, variant, inner, lastSet, buy_orders, sell_orders, channel, db, matchers,
                   pc, item, loadQ, nextId, nBuilds, everFilled, origin, written>>

\* ------------------------------------- the channel book (match-engine)
OneStepFrame ==
    UNCHANGED <<lockVars, variant, inner, lastSet, db, matchers, pc, item, loadQ, nBuilds, nLoads,
                everFilled, written, storeError>>

OneStepAccepted(buy, sell, sent) ==
    /\ buy_orders' = buy
    /\ sell_orders' = sell
    /\ channel' = sent
    /\ result' = "Ok"
    /\ nextId' = nextId + 1
    /\ origin' = "used"
    /\ OneStepFrame

\* append_buy_order with the send made before the side check
ChannelAppendBuyOrderSendEarly(order) ==
    /\ variant = "channel"
    /\ IF order.order_type = "Buy"
       THEN OneStepAccepted(sorted_insert_desc_by_key(buy_orders, order), sell_orders,
                            Append(channel, order))
       ELSE /\ channel' = Append(channel, order)
            /\ result' = "Err"
            /\ storeError' = "none"
            /\ UNCHANGED <<lockVars, variant, inner, lastSet, buy_orders, sell_orders, db, matchers,
                           pc, item, loadQ, nextId, nBuilds, nLoads, everFilled, origin,
                           written>>

\* lock().unwrap() on a poisoned mutex: the calling thread panics
Panicked ==
    /\ result' = "panic"
    /\ UNCHANGED <<lockVars, variant, inner, lastSet, buy_orders, sell_orders, channel, db,
                   matchers, pc, item, loadQ, nextId, nBuilds, nLoads, everFilled, origin,
                   written, storeError>>

ChannelAppendBuyOrder(order) ==
    /\ variant = "channel"
    /\ IF order.order_type = "Buy"
       THEN IF "buy" \in poisoned
            THEN Panicked
            ELSE OneStepAccepted(sorted_insert_desc_by_key(buy_orders, order), sell_orders,
                                 Append(channel, order))
       ELSE Rejected

ChannelAppendSellOrder(order) ==
    /\ variant = "channel"
    /\ IF order.order_type = "Sell"
       THEN IF "sell" \in poisoned
            THEN Panicked
            ELSE OneStepAccepted(buy_orders, sorted_insert_asc_by_key(sell_orders, order),
                                 Append(channel, order))
       ELSE Rejected

\* get_buy_orders / get_sell_orders of the channel book
ChannelGetOrders(side) ==
    /\ variant = "channel"
    /\ IF side \in poisoned
       THEN Panicked
       ELSE /\ result' = "Ok"
            /\ UNCHANGED <<lockVars, variant, inner, lastSet, buy_orders, sell_orders,
                           channel, db, matchers, pc, item, loadQ, nextId, nBuilds, nLoads,
                           everFilled, origin, written, storeError>>

\* match_orders(rx): the spawned thread gets the receiver's mutex (free once
\* the thread before it has ended) and receives one order; with no order in
\* the channel recv_timeout gives Err and the thread ends
ChannelMatchOrders ==
    /\ variant = "channel"
    /\ matchers = EmptyBag
    /\ "rx" \notin poisoned
    /\ channel # <<>>
    /\ channel' = Tail(channel)
    /\ matchers' = SetToBag({0})
    /\ UNCHANGED <<lockVars, variant, inner, lastSet, buy_orders, sell_orders, db, pc, item,
                   loadQ, result, nextId, nBuilds, nLoads, everFilled, origin, written,
                   storeError>>

\* one iteration of the channel book's matcher loop, both side locks held:
\* with a buy at index and no sell there, .expect("No sell orders") panics
\* and the thread dies holding the receiver's and both sides' guards
ChannelMatchStep(index) ==
    /\ variant = "channel"
    /\ BagIn(index, matchers)
    /\ LET stop == index + 1 > Len(buy_orders) \/ index + 1 > Len(sell_orders)
       IN  IF index + 1 <= Len(buy_orders) /\ index + 1 > Len(sell_orders)
           THEN /\ poisoned' = {"rx", "buy", "sell"}
                /\ matchers' = matchers (-) SetToBag({index})
                /\ UNCHANGED <<holder, todo, nCalls, buy_orders, sell_orders, everFilled>>
           ELSE /\ IF /\ index + 1 <= Len(buy_orders)
                      /\ Crosses(buy_orders[index + 1], sell_orders[index + 1])
                   THEN /\ buy_orders' = [buy_orders EXCEPT
                               ![index + 1] = update_order_status(@, "Filled")]
                        /\ sell_orders' = [sell_orders EXCEPT
                               ![index + 1] = update_order_status(@, "Filled")]
                        /\ everFilled' = everFilled \cup {buy_orders[index + 1].id,
                                                           sell_orders[index + 1].id}
                   ELSE UNCHANGED <<buy_orders, sell_orders, everFilled>>
                /\ matchers' = IF stop
                               THEN matchers (-) SetToBag({index})
                               ELSE (matchers (-) SetToBag({index}))
                                    (+) SetToBag({index + 1})
                /\ UNCHANGED lockVars
    /\ UNCHANGED <<variant, inner, lastSet, channel, db, pc, item, loadQ, result, nextId,
                   nBuilds, nLoads, origin, written, storeError>>

\* ------------------------------------- the heap book (engine)
HeapAppendBuyOrder(order) ==
    /\ variant = "heap"
    /\ IF order.order_type = "Buy"
       THEN OneStepAccepted(BinaryHeap_push(buy_orders, order), sell_orders, channel)
       ELSE Rejected

HeapAppendSellOrder(order) ==
    /\ variant = "heap"
    /\ IF order.order_type = "Sell"
       THEN OneStepAccepted(buy_orders, sorted_insert_asc_by_key(sell_orders, order), channel)
       ELSE Rejected

\* ------------------------------------------------------------- Next
OrderTypes == {"Buy", "Sell"}

Live == BagCardinality(matchers)
Indexes == BagToSet(matchers)

CanCreate == nextId <= MaxOrders
CanStart == CanCreate /\ Live <= MaxPending

\* one book of any of the three crates: appends and the matcher threads
Next ==
    \/ \E p \in Prices, t \in OrderTypes :
           CanStart /\ AppendBuyOrder(NewOrder(DefaultQuantity, p, t))
    \/ \E p \in Prices, t \in OrderTypes :
           CanStart /\ AppendSellOrder(NewOrder(DefaultQuantity, p, t))
    \/ JoinActiveBuy
    \/ JoinActiveSell
    \/ JoinFilledBuy
    \/ JoinFilledSellSetSpawn
    \/ \E index \in Indexes : MatchStep(index)
    \/ \E p \in Prices, t \in OrderTypes :
           CanCreate /\ ChannelAppendBuyOrder(NewOrder(DefaultQuantity, p, t))
    \/ \E p \in Prices, t \in OrderTypes :
           CanCreate /\ ChannelAppendSellOrder(NewOrder(DefaultQuantity, p, t))
    \/ \E p \in Prices, t \in OrderTypes :
           CanCreate /\ HeapAppendBuyOrder(NewOrder(DefaultQuantity, p, t))
    \/ \E p \in Prices, t \in OrderTypes :
           CanCreate /\ HeapAppendSellOrder(NewOrder(DefaultQuantity, p, t))

Spec == Init /\ [][Next]_vars

\* the persistent book over its store: appends, matcher threads, and new books
\* built and loaded from what earlier ones wrote
CanStartStore == nextId <= MaxStoreOrders /\ Live <= MaxPending

InitStore == Init /\ variant = "persistent"

NextStore ==
    \/ \E p \in Prices, t \in OrderTypes :
           CanStartStore /\ AppendBuyOrder(NewOrder(DefaultQuantity, p, t))
    \/ \E p \in Prices, t \in OrderTypes :
           CanStartStore /\ AppendSellOrder(NewOrder(DefaultQuantity, p, t))
    \/ JoinActiveBuy
    \/ JoinActiveSell
    \/ JoinFilledBuy
    \/ JoinFilledSellSetSpawn
    \/ \E index \in Indexes : MatchStep(index)
    \/ (nBuilds < MaxBuilds /\ Build)
    \/ (nLoads < MaxLoads /\ Load)
    \/ LoadPush
    \/ SetFails
    \/ (nLoads < MaxLoads /\ LoadGetFails)

SpecStore == InitStore /\ [][NextStore]_vars

\* the persistent book with one restart: appends and matcher threads, at most
\* one other append under way per matcher thread, one build and one load at
\* any moment between calls, the store never failing
ReloadPrices == {1, 2}

CanStartReload == nextId <= MaxReloadOrders /\ matchers \in {EmptyBag, SetToBag({0})}

NextReload ==
    \/ \E p \in ReloadPrices, t \in OrderTypes :
           CanStartReload /\ AppendBuyOrder(NewOrder(DefaultQuantity, p, t))
    \/ \E p \in ReloadPrices, t \in OrderTypes :
           CanStartReload /\ AppendSellOrder(NewOrder(DefaultQuantity, p, t))
    \/ JoinActiveBuy
    \/ JoinActiveSell
    \/ JoinFilledBuy
    \/ JoinFilledSellSetSpawn
    \/ \E index \in Indexes : MatchStep(index)
    \/ (nBuilds = 0 /\ Build)
    \/ (nLoads = 0 /\ Load)
    \/ LoadPush

SpecReload == InitStore /\ [][NextReload]_vars

\* the persistent book with orders of several quantities
QuantityPrices == {9, 10}

NextQ ==
    \/ \E p \in QuantityPrices, q \in Quantities :
           nextId <= MaxOrdersQ /\ AppendBuyOrder(NewOrder(q, p, "Buy"))
    \/ \E p \in QuantityPrices, q \in Quantities :
           nextId <= MaxOrdersQ /\ AppendSellOrder(NewOrder(q, p, "Sell"))
    \/ JoinActiveBuy
    \/ JoinActiveSell
    \/ JoinFilledBuy
    \/ JoinFilledSellSetSpawn
    \/ \E index \in Indexes : MatchStep(index)

SpecQ == InitStore /\ [][NextQ]_vars

\* the persistent book alone, with longer sequences of appends
NextDeep ==
    \/ \E p \in Prices, t \in OrderTypes :
           /\ nextId <= MaxDeepOrders /\ Live <= MaxPending
           /\ AppendBuyOrder(NewOrder(DefaultQuantity, p, t))
    \/ \E p \in Prices, t \in OrderTypes :
           /\ nextId <= MaxDeepOrders /\ Live <= MaxPending
           /\ AppendSellOrder(NewOrder(DefaultQuantity, p, t))
    \/ JoinActiveBuy
    \/ JoinActiveSell
    \/ JoinFilledBuy
    \/ JoinFilledSellSetSpawn
    \/ \E index \in Indexes : MatchStep(index)

SpecDeep == InitStore /\ [][NextDeep]_vars

\* tests::match_orders_test: the six orders, appended in this order by one caller
TestOrders ==
    << [order_type |-> "Sell", price |-> 4],
       [order_type |-> "Sell", price |-> 3],
       [order_type |-> "Sell", price |-> 9],
       [order_type |-> "Buy", price |-> 5],
       [order_type |-> "Buy", price |-> 4],
       [order_type |-> "Buy", price |-> 3] >>

\* the body of the test's for loop
TestAppend ==
    /\ nextId <= Len(TestOrders)
    /\ LET order == NewOrder(1, TestOrders[nextId].price, TestOrders[nextId].order_type)
       IN  IF order.order_type = "Buy" THEN AppendBuyOrder(order)
           ELSE AppendSellOrder(order)

TestCaller ==
    TestAppend \/ JoinActiveBuy \/ JoinActiveSell \/ JoinFilledBuy \/ JoinFilledSellSetSpawn

NextTest ==
    \/ TestAppend
    \/ JoinActiveBuy
    \/ JoinActiveSell
    \/ JoinFilledBuy
    \/ JoinFilledSellSetSpawn
    \/ \E index \in Indexes : MatchStep(index)

\* the caller's thread and every matcher thread keep being scheduled
SpecTest ==
    /\ InitStore
    /\ [][NextTest]_vars
    /\ WF_vars(TestCaller)
    /\ \A index \in 0..Len(TestOrders) : WF_vars(MatchStep(index))

\* the persistent book with every thread scheduled again and again: a call in
\* progress goes on to its return, every matcher thread gets its next iteration
CallSteps == JoinActiveBuy \/ JoinActiveSell \/ JoinFilledBuy \/ JoinFilledSellSetSpawn

NextLive ==
    \/ \E p \in Prices, t \in OrderTypes :
           /\ nextId <= MaxLiveOrders /\ Live <= MaxPending
           /\ AppendBuyOrder(NewOrder(DefaultQuantity, p, t))
    \/ \E p \in Prices, t \in OrderTypes :
           /\ nextId <= MaxLiveOrders /\ Live <= MaxPending
           /\ AppendSellOrder(NewOrder(DefaultQuantity, p, t))
    \/ JoinActiveBuy
    \/ JoinActiveSell
    \/ JoinFilledBuy
    \/ JoinFilledSellSetSpawn
    \/ \E index \in Indexes : MatchStep(index)

SpecLive ==
    /\ InitStore
    /\ [][NextLive]_vars
    /\ WF_vars(CallSteps)
    /\ \A index \in 0..MaxLiveOrders : WF_vars(MatchStep(index))

\* the channel book with its matcher thread, as tests::test starts it
InitChannel == Init /\ variant = "channel"

NextChannel ==
    \/ \E p \in Prices, t \in OrderTypes :
           CanCreate /\ ChannelAppendBuyOrder(NewOrder(DefaultQuantity, p, t))
    \/ \E p \in Prices, t \in OrderTypes :
           CanCreate /\ ChannelAppendSellOrder(NewOrder(DefaultQuantity, p, t))
    \/ \E side \in {"buy", "sell"} : ChannelGetOrders(side)
    \/ ChannelMatchOrders
    \/ \E index \in Indexes : ChannelMatchStep(index)

SpecChannel == InitChannel /\ [][NextChannel]_vars

\* ------------------------------------- the lock view of the persistent book
\* Every call and every matcher thread as the sequence of its operations on
\* the three mutexes (db, buy side, sell side), with the data left out.
LockOp(l) == [op |-> "lock", lock |-> l]
UnlockOp(l) == [op |-> "unlock", lock |-> l]
SpawnOp == [op |-> "spawn", lock |-> "none"]

\* get_buy_orders / get_sell_orders: the guard is a temporary of one statement
ReadSide(l) == <<LockOp(l), UnlockOp(l)>>

\* join_active_orders then join_filled_orders: four reads, one side at a time
SnapshotReads == ReadSide("buy") \o ReadSide("sell") \o ReadSide("buy") \o ReadSide("sell")

\* append_buy_order without drop(buy_orders): the buy guard lives to the end
append_buy_order_keeps_guard ==
    <<LockOp("buy"), LockOp("db")>> \o SnapshotReads
    \o <<UnlockOp("db"), SpawnOp, UnlockOp("buy")>>

\* append_buy_order: insert under the buy lock, drop it, then the db lock held
\* over the snapshot reads and db.set, then match_orders spawns the thread
append_buy_order_locks ==
    <<LockOp("buy"), UnlockOp("buy"), LockOp("db")>> \o SnapshotReads
    \o <<UnlockOp("db"), SpawnOp>>

append_sell_order_locks ==
    <<LockOp("sell"), UnlockOp("sell"), LockOp("db")>> \o SnapshotReads
    \o <<UnlockOp("db"), SpawnOp>>

RECURSIVE Repeat(_, _)
Repeat(ops, n) == IF n = 0 THEN <<>> ELSE ops \o Repeat(ops, n - 1)

\* load of a snapshot with nBuy active buys and nSell active sells: the db
\* guard is held to the end, every push locks its side for one statement
load_locks(nBuy, nSell) ==
    <<LockOp("db")>> \o Repeat(ReadSide("buy"), nBuy) \o Repeat(ReadSide("sell"), nSell)
    \o <<UnlockOp("db")>>

\* the matcher thread: per iteration the buy guard, then the sell guard, both
\* dropped at the end of the loop body in reverse order of declaration
match_orders_locks(iterations) ==
    Repeat(<<LockOp("buy"), LockOp("sell"), UnlockOp("sell"), UnlockOp("buy")>>, iterations)

CallPrograms ==
    {append_buy_order_locks, append_sell_order_locks, ReadSide("buy"), ReadSide("sell")}
    \cup {load_locks(nBuy, nSell) : nBuy \in 0..1, nSell \in 0..1}

\* the caller starts its next call
StartCall ==
    /\ variant = "persistent"
    /\ todo[CallerThread] = <<>>
    /\ nCalls < MaxCalls
    /\ \E program \in CallPrograms : todo' = [todo EXCEPT ![CallerThread] = program]
    /\ nCalls' = nCalls + 1
    /\ UNCHANGED <<holder, poisoned, variant, buy_orders, sell_orders, channel, db, matchers, pc,
                   item, loadQ, result, nextId, nBuilds, nLoads, inner, everFilled,
                   origin, written, storeError, lastSet>>

LockFrame ==
    UNCHANGED <<nCalls, poisoned, variant, buy_orders, sell_orders, channel, db, matchers, pc, item,
                loadQ, result, nextId, nBuilds, nLoads, inner, everFilled, origin,
                written, storeError, lastSet>>

\* Mutex::lock returns: the mutex was free and the thread now holds it
Acquire(t) ==
    /\ todo[t] # <<>>
    /\ Head(todo[t]).op = "lock"
    /\ holder[Head(todo[t]).lock] = None
    /\ holder' = [holder EXCEPT ![Head(todo[t]).lock] = Some(t)]
    /\ todo' = [todo EXCEPT ![t] = Tail(@)]
    /\ LockFrame

\* the guard is dropped
Release(t) ==
    /\ todo[t] # <<>>
    /\ Head(todo[t]).op = "unlock"
    /\ holder' = [holder EXCEPT ![Head(todo[t]).lock] = None]
    /\ todo' = [todo EXCEPT ![t] = Tail(@)]
    /\ LockFrame

\* thread::spawn in match_orders: a new matcher thread with its iterations
SpawnMatcher ==
    /\ todo[CallerThread] # <<>>
    /\ Head(todo[CallerThread]).op = "spawn"
    /\ \E m \in Threads \ {CallerThread}, iterations \in 1..MaxIterations :
           /\ todo[m] = <<>>
           /\ todo' = [todo EXCEPT ![CallerThread] = Tail(@),
                                   ![m] = match_orders_locks(iterations)]
    /\ UNCHANGED holder
    /\ LockFrame

NextLocks ==
    \/ StartCall
    \/ \E t \in Threads : Acquire(t)
    \/ \E t \in Threads : Release(t)
    \/ SpawnMatcher

\* every thread that can take its next step is scheduled
SpecLocks ==
    /\ InitStore
    /\ [][NextLocks]_vars
    /\ \A t \in Threads : WF_vars(Acquire(t) \/ Release(t))
    /\ WF_vars(SpawnMatcher)

\* ------------------------------------- the store (crates/db)
\* JSON text as its sequence of tokens
Tok(kind, str, num) == [kind |-> kind, str |-> str, num |-> num]
Punct(c) == Tok("punct", c, 0)
StrTok(s) == Tok("string", s, 0)
NumTok(n) == Tok("number", "", n)

\* the elements of a Vec<u32>, comma separated
RECURSIVE SerializeElems(_)
SerializeElems(list) ==
    IF list = <<>> THEN <<>>
    ELSE IF Len(list) = 1 THEN <<NumTok(list[1])>>
    ELSE <<NumTok(list[1]), Punct(",")>> \o SerializeElems(Tail(list))

SerializeVec(list) == <<Punct("[")>> \o SerializeElems(list) \o <<Punct("]")>>

\* serde_json::to_string of a Complex: the fields in declaration order
serde_json_to_string(value) ==
    <<Punct("{"), StrTok("id"), Punct(":"), StrTok(value.id), Punct(","),
      StrTok("active_orders"), Punct(":")>>
    \o SerializeVec(value.active_orders)
    \o <<Punct(","), StrTok("fulfilled_orders"), Punct(":")>>
    \o SerializeVec(value.fulfilled_orders)
    \o <<Punct("}")>>

ParseFail == [ok |-> FALSE, value |-> <<>>, next |-> 0]
ParseOk(value, next) == [ok |-> TRUE, value |-> value, next |-> next]

\* the elements of an array from position pos on, up to and with the "]"
RECURSIVE ParseElems(_, _, _)
ParseElems(toks, pos, acc) ==
    IF pos + 1 > Len(toks) \/ toks[pos].kind # "number" THEN ParseFail
    ELSE IF toks[pos + 1] = Punct("]") THEN ParseOk(Append(acc, toks[pos].num), pos + 2)
    ELSE IF toks[pos + 1] = Punct(",")
         THEN ParseElems(toks, pos + 2, Append(acc, toks[pos].num))
    ELSE ParseFail

\* an array of numbers starting at position pos
ParseVec(toks, pos) ==
    IF pos + 1 > Len(toks) \/ toks[pos] # Punct("[") THEN ParseFail
    ELSE IF toks[pos + 1] = Punct("]") THEN ParseOk(<<>>, pos + 2)
    ELSE ParseElems(toks, pos + 1, <<>>)

\* serde_json::from_str::<Complex>: Some(value), or None for Err
serde_json_from_str(toks) ==
    LET n == Len(toks)
        active == ParseVec(toks, 8)
        fulfilled == ParseVec(toks, active.next + 3)
    IN  IF /\ n >= 7
           /\ toks[1] = Punct("{") /\ toks[2] = StrTok("id") /\ toks[3] = Punct(":")
           /\ toks[4].kind = "string" /\ toks[5] = Punct(",")
           /\ toks[6] = StrTok("active_orders") /\ toks[7] = Punct(":")
           /\ active.ok /\ active.next + 2 <= n
           /\ toks[active.next] = Punct(",")
           /\ toks[active.next + 1] = StrTok("fulfilled_orders")
           /\ toks[active.next + 2] = Punct(":")
           /\ fulfilled.ok /\ fulfilled.next = n
           /\ toks[n] = Punct("}")
        THEN Some([id |-> toks[4].str, active_orders |-> active.value,
                   fulfilled_orders |-> fulfilled.value])
        ELSE None

\* the values the tests give to set
Numbers == {1, 2}
Vecs(maxLen) == UNION {[1..len -> Numbers] : len \in 0..maxLen}
Complexes ==
    [id : {"Hello", "btc/usdc"}, active_orders : Vecs(MaxListLen),
     fulfilled_orders : Vecs(1)]

\* Database::set with every key given the value
Database_set_every_key(key, value) ==
    /\ inner' = [k \in Keys |-> Some(serde_json_to_string(value))]
    /\ lastSet' = [lastSet EXCEPT ![key] = Some(value)]
    /\ UNCHANGED <<lockVars, variant, buy_orders, sell_orders, channel, db, matchers, pc,
                   item, loadQ, result, nextId, nBuilds, nLoads, everFilled, origin,
                   written, storeError>>

\* Database::set: the value's JSON text is inserted under the key
Database_set(key, value) ==
    /\ inner' = [inner EXCEPT ![key] = Some(serde_json_to_string(value))]
    /\ lastSet' = [lastSet EXCEPT ![key] = Some(value)]
    /\ UNCHANGED <<lockVars, variant, buy_orders, sell_orders, channel, db, matchers, pc,
                   item, loadQ, result, nextId, nBuilds, nLoads, everFilled, origin,
                   written, storeError>>

\* Database::get of a key that is present (a missing key panics)
Database_get(key) == inner[key][1]

NextDb == \E key \in Keys, value \in Complexes : Database_set(key, value)

SpecDb == InitStore /\ [][NextDb]_vars

\* ------------------------------------------------------------- claims
Book == Elems(buy_orders) \cup Elems(sell_orders)
Quiescent == pc = "idle" /\ matchers = EmptyBag
PricesOf(vec) == [i \in 1..Len(vec) |-> vec[i].price]

\* C1: once every matching pass triggered so far has finished, the highest
\* Active buy price is strictly below the lowest Active sell price.
C1_NoRestingCross ==
    (variant = "persistent" /\ Quiescent) =>
        \A b \in Elems(buy_orders), s \in Elems(sell_orders) :
            (IsActive(b) /\ IsActive(s)) => b.price < s.price

\* C2: when an append has returned Ok, no matching pass is still running or
\* still to run.
C2_AppendReturnsSettled ==
    (variant = "persistent" /\ pc = "idle" /\ result = "Ok") => matchers = EmptyBag

TimePriority(side) ==
    \A a \in Elems(side), b \in Elems(side) :
        (a.price = b.price /\ a.id < b.id /\ IsFilled(b)) => ~IsActive(a)

\* C3: no order is Filled while an earlier-inserted order of the same side and
\* the same price is still Active (ids grow with the time of insertion).
C3_TimePriority == TimePriority(buy_orders) /\ TimePriority(sell_orders)

\* C4: after any sequence of appends the first buy has the highest price and the
\* first sell the lowest, and among the orders of that price it is the one
\* inserted first.
C4_BestFirst ==
    /\ \A i \in 1..Len(buy_orders) :
           \/ buy_orders[i].price < buy_orders[1].price
           \/ buy_orders[i].price = buy_orders[1].price /\ buy_orders[1].id <= buy_orders[i].id
    /\ \A i \in 1..Len(sell_orders) :
           \/ sell_orders[i].price > sell_orders[1].price
           \/ sell_orders[i].price = sell_orders[1].price /\ sell_orders[1].id <= sell_orders[i].id

C4_Witness ==
    /\ Len(buy_orders) >= 2 /\ Len(sell_orders) >= 2
    /\ \E i \in 2..Len(buy_orders) : buy_orders[i].price = buy_orders[1].price
    /\ \E i \in 2..Len(sell_orders) : sell_orders[i].price = sell_orders[1].price

SidesTyped ==
    /\ \A o \in Elems(buy_orders) : o.order_type = "Buy"
    /\ \A o \in Elems(sell_orders) : o.order_type = "Sell"

\* C5: an append given an order of the other side returns Err and changes
\* nothing: no side, no stored snapshot, no message, no matcher thread; so each
\* side only ever holds orders of its own type.
C5_WrongSideRejected ==
    /\ []SidesTyped
    /\ [][(result # "Err" /\ result' = "Err") =>
            UNCHANGED <<buy_orders, sell_orders, db, channel, matchers, pc, item>>]_vars

C5_Witness ==
    /\ result = "Err"
    /\ buy_orders # <<>>
    /\ sell_orders # <<>>
    /\ (variant = "persistent" => db # None /\ matchers # EmptyBag)
    /\ (variant = "channel" => channel # <<>>)

TestOutcome ==
    /\ PricesOf(get_filled_buy_orders) = <<5, 4>>
    /\ PricesOf(get_filled_sell_orders) = <<3, 4>>
    /\ PricesOf(get_active_sell_orders) = <<9>>

\* C6: in match_orders_test, whatever the interleaving of the caller and the
\* matcher threads, the book reaches, and then stays in, the state with filled
\* buys [5, 4], filled sells [3, 4] and the sell at 9 Active.
C6_TestOutcome == <>[]TestOutcome

C6_Witness == nextId > Len(TestOrders) /\ Quiescent /\ TestOutcome

\* C7: an order is Filled exactly when its remaining quantity is 0 (a match
\* takes min(buy quantity, sell quantity) off both orders).
C7_FilledIffExhausted ==
    \A o \in Book : IsFilled(o) <=> o.quantity = 0

\* C8: the stored snapshot is taken after the pass of the append that wrote it;
\* so once the passes have finished, every Filled order of the book is listed
\* in fulfilled_orders, and not in active_orders, of the stored snapshot.
C8_SnapshotAfterPass ==
    (variant = "persistent" /\ Quiescent /\ db # None /\ nBuilds = 0 /\ nLoads = 0) =>
        \A o \in Book :
            IsFilled(o) => /\ o.id \in Ids(db[1].fulfilled_orders)
                           /\ o.id \notin Ids(db[1].active_orders)

UniqueIds ==
    Cardinality(Ids(buy_orders) \cup Ids(sell_orders)) = Len(buy_orders) + Len(sell_orders)

\* C9: an order that has been marked Filled is never reported Active again,
\* also not by a fresh book loaded from the store (stated for books that hold
\* every order once).
C9_FilledIsFinal ==
    UniqueIds => \A o \in Book : o.id \in everFilled => ~IsActive(o)

\* C10: the snapshot an append writes lists every order of the book in exactly
\* one of active_orders and fulfilled_orders.
C10_SnapshotOneState ==
    (variant = "persistent" /\ pc = "idle" /\ result = "Ok" /\ db # None
     /\ nBuilds = 0 /\ nLoads = 0) =>
        /\ Ids(db[1].active_orders) \cap Ids(db[1].fulfilled_orders) = {}
        /\ Ids(db[1].active_orders) \cup Ids(db[1].fulfilled_orders) = Ids(buy_orders) \cup Ids(sell_orders)

\* a fresh book that has finished its one load, from a snapshot it could read,
\* and has seen no append since
FreshlyLoaded == origin = "loaded" /\ pc = "idle" /\ db # None

\* C11: a fresh book loaded from the snapshot holds, side by side and in the
\* same order, exactly the orders that were active in the writing book when
\* the snapshot was written
C11_RoundTrip ==
    FreshlyLoaded => buy_orders = written.buy /\ sell_orders = written.sell

\* what join_filled_orders returns
join_filled_orders == get_filled_buy_orders \o get_filled_sell_orders

\* C12: after a load, no order of the stored fulfilled_orders is an entry of
\* the buy or sell side, and every one of them is still reported by
\* join_filled_orders
C12_FulfilledKept ==
    FreshlyLoaded =>
        /\ Ids(db[1].fulfilled_orders) \cap (Ids(buy_orders) \cup Ids(sell_orders)) = {}
        /\ Ids(db[1].fulfilled_orders) \subseteq Ids(join_filled_orders)

\* C13: in every step of one book, an entry that is Filled before the step is
\* Filled after it: no entry with the id of a Filled order is Active
C13_StatusForward ==
    [][\A o \in Book :
           IsFilled(o) =>
               \A n \in Elems(buy_orders') \cup Elems(sell_orders') :
                   n.id = o.id => IsFilled(n)]_vars

\* a matcher thread is about to visit a pair that is already Filled
C13_Witness ==
    \E index \in Indexes :
        /\ index + 1 <= Len(buy_orders) /\ index + 1 <= Len(sell_orders)
        /\ IsFilled(buy_orders[index + 1]) /\ IsFilled(sell_orders[index + 1])

\* C14: whenever no call and no matching pass is running, get_buy_orders and
\* get_sell_orders hold no Filled order
C14_FilledRemoved == Quiescent => \A o \in Book : ~IsFilled(o)

\* C15: no two entries of the buy and sell sides have the same id
C15_NoDuplicateIds ==
    LET entries == buy_orders \o sell_orders
    IN  \A i, j \in 1..Len(entries) : entries[i].id = entries[j].id => i = j

\* C16: an append whose snapshot write failed returns an error value to its
\* caller and leaves the inserted order in the book; it does not panic
C16_WriteFailureReturned ==
    storeError = "set" =>
        /\ pc = "idle" /\ result = "Err"
        /\ (nextId - 1) \in Ids(buy_orders) \cup Ids(sell_orders)

\* C17: a load whose snapshot read failed reports the failure to its caller
C17_ReadFailureReported == storeError = "get" => result = "Err"

\* C18: in the channel book the channel carries exactly the accepted orders,
\* one message per accepted append and in the order of the appends; a rejected
\* append adds no message
C18_ChannelCarriesAppends ==
    variant = "channel" =>
        /\ Len(channel) = nextId - 1
        /\ \A i \in 1..Len(channel) : channel[i].id = i /\ channel[i] \in Book

\* a channel book after three accepted appends on both sides and a rejected one
C18_Witness ==
    /\ variant = "channel"
    /\ Len(channel) >= 3
    /\ buy_orders # <<>> /\ sell_orders # <<>>
    /\ result = "Err"

\* C19: for every key that has been set, get returns the JSON text of the
\* value last set for that key, and that text deserializes to that value; a
\* set on another key does not change it
C19_LastWriteWins ==
    \A key \in Keys :
        lastSet[key] # None =>
            /\ inner[key] # None
            /\ Database_get(key) = serde_json_to_string(lastSet[key][1])
            /\ serde_json_from_str(Database_get(key)) = lastSet[key]

\* both keys hold different values, one with an empty list and one with a full one
C19_Witness ==
    /\ lastSet["BTC/USD"] # None /\ lastSet["btc/usdc"] # None
    /\ lastSet["BTC/USD"] # lastSet["btc/usdc"]
    /\ lastSet["BTC/USD"][1].fulfilled_orders = <<>>
    /\ Len(lastSet["btc/usdc"][1].active_orders) = MaxListLen

\* the ids of the Filled entries of two sides
FilledIds(buy, sell) == {o.id : o \in {e \in Elems(buy) \cup Elems(sell) : IsFilled(e)}}

\* C20: a step that marks any order Filled marks exactly two, a buy entry and
\* a sell entry that were both Active before the step with buy.price >=
\* sell.price, and marks them in that one step
C20_FillsInPairs ==
    [][LET new == FilledIds(buy_orders', sell_orders') \ FilledIds(buy_orders, sell_orders)
       IN  \/ new = {}
           \/ \E b \in Elems(buy_orders), s \in Elems(sell_orders) :
                  /\ IsBuy(b) /\ IsSell(s)
                  /\ IsActive(b) /\ IsActive(s)
                  /\ b.price >= s.price
                  /\ new = {b.id, s.id}
                  /\ update_order_status(b, "Filled") \in Elems(buy_orders')
                  /\ update_order_status(s, "Filled") \in Elems(sell_orders')]_vars

\* two pairs have been filled in one book
C20_Witness ==
    /\ Cardinality(everFilled) >= 4
    /\ Cardinality(FilledIds(buy_orders, <<>>)) = Cardinality(FilledIds(<<>>, sell_orders))

\* a whole matching pass from index on, run with no other thread in between
RECURSIVE RunPass(_, _, _)
RunPass(buy, sell, index) ==
    IF index + 1 > Len(buy) \/ index + 1 > Len(sell) THEN [buy |-> buy, sell |-> sell]
    ELSE IF Crosses(buy[index + 1], sell[index + 1])
         THEN RunPass([buy EXCEPT ![index + 1] = update_order_status(@, "Filled")],
                      [sell EXCEPT ![index + 1] = update_order_status(@, "Filled")],
                      index + 1)
    ELSE RunPass(buy, sell, index + 1)

\* the order the book's entry with this id was appended as
AppendedAs(id) ==
    update_order_status(CHOOSE o \in Book : o.id = id, "Active")

\* the book after the appends id, id + 1, ... of this behaviour made one after
\* the other, each append's pass run to its end before the next append
RECURSIVE Replay(_, _, _)
Replay(id, buy, sell) ==
    IF id >= nextId THEN [buy |-> buy, sell |-> sell]
    ELSE LET o == AppendedAs(id)
             b == IF IsBuy(o) THEN sorted_insert_desc_by_key(buy, o) ELSE buy
             s == IF IsSell(o) THEN sorted_insert_asc_by_key(sell, o) ELSE sell
             after == RunPass(b, s, 0)
         IN  Replay(id + 1, after.buy, after.sell)

\* C21: when every call and every pass has finished, the Filled orders are
\* those of the run that makes the same appends in the same order with each
\* pass finished before the next append: the interleaving makes no difference
C21_OutcomeBySequence ==
    (variant = "persistent" /\ Quiescent) =>
        LET sequential == Replay(1, <<>>, <<>>)
        IN  FilledIds(buy_orders, sell_orders) = FilledIds(sequential.buy, sequential.sell)

\* no matcher thread is further than one past the end of the shorter side
IndexInRange ==
    \A index \in Indexes : index <= Len(buy_orders) /\ index <= Len(sell_orders)

\* C22: a matcher thread never goes on past the end of either side, every
\* append that has started returns, and from some point on no pass is running
C22_PassesTerminate ==
    /\ []IndexInRange
    /\ (pc # "idle") ~> (pc = "idle")
    /\ <>[](matchers = EmptyBag)

\* all passes have ended on a book whose sides have different lengths
C22_Witness ==
    /\ Quiescent
    /\ nextId > MaxLiveOrders
    /\ buy_orders # <<>> /\ sell_orders # <<>>
    /\ Len(buy_orders) # Len(sell_orders)

\* the thread is blocked in Mutex::lock
Waiting(t) ==
    /\ todo[t] # <<>>
    /\ Head(todo[t]).op = "lock"
    /\ holder[Head(todo[t]).lock] # None

\* the thread that holds the mutex a blocked thread wants
WaitsFor(t) == holder[Head(todo[t]).lock][1]

NoCyclicWait ==
    ~ \E waiters \in SUBSET Threads \ {{}} :
          \A t \in waiters : Waiting(t) /\ WaitsFor(t) \in waiters

\* C23: no set of threads wait for mutexes held within the set, and every
\* thread blocked on a mutex gets it
C23_NoDeadlock ==
    /\ []NoCyclicWait
    /\ \A t \in Threads : Waiting(t) ~> ~Waiting(t)

\* a matcher thread holding the buy lock is blocked on the sell lock, which the
\* caller holds for a snapshot read under the db lock
C23_Witness ==
    \E m \in Threads \ {CallerThread} :
        /\ holder["buy"] = Some(m)
        /\ Waiting(m)
        /\ WaitsFor(m) = CallerThread
        /\ holder["db"] = Some(CallerThread)

\* C24: the book holds as many Filled buy entries as Filled sell entries
C24_FilledCountsEqual == Len(get_filled_buy_orders) = Len(get_filled_sell_orders)

\* a book built over a store, loaded, appended to, with a pair filled and all
\* passes finished
C24_Witness ==
    /\ nBuilds = 1 /\ nLoads = 1 /\ origin = "used"
    /\ Quiescent
    /\ get_filled_buy_orders # <<>>

\* C25: in the persistent book buy_orders is sorted by non-increasing price
\* and sell_orders by non-decreasing price
C25_SidesSorted ==
    variant = "persistent" =>
        /\ \A i \in 1..Len(buy_orders) - 1 : buy_orders[i].price >= buy_orders[i + 1].price
        /\ \A i \in 1..Len(sell_orders) - 1 : sell_orders[i].price <= sell_orders[i + 1].price

\* C26: in the channel book no matching pass panics: no mutex is poisoned and
\* no append or read of the book panics
C26_PassNeverFails == variant = "channel" => poisoned = {} /\ result # "panic"

\* C27: for every two orders of a book, partial_cmp gives the ordering cmp gives
C27_PartialCmpIsCmp ==
    \A a \in Book, b \in Book : Order_partial_cmp(a, b) = Order_cmp(a, b)
====
